---- MODULE Spec2Model ----
(***************************************************************************)
(* Transactional write path of backend/index.js:                           *)
(*   POST /areas/:id/puestos  (position + risk / PPE associations)         *)
(*   POST /cuestionario       (questionnaire header + answer rows)         *)
(* over a pg connection pool and a PostgreSQL store.  One action per       *)
(* await of a handler: everything the handler does synchronously after an  *)
(* await resolves or rejects belongs to the action of that await.          *)
(***************************************************************************)
EXTENDS Integers, Sequences, FiniteSets, TLC

\* ------------------------------------------------------------------ bounds
PoolSize == 2      \* connections of the pool
MaxLen == 2        \* longest riesgos / epp / respuestas list submitted
MaxFaults == 2     \* failures the pool and the store inject in one run

\* Two requests are in flight: enough for every interleaving of one unit of
\* work with another.
Reqs == {1, 2}
Conns == 1..PoolSize

\* ------------------------------------------------------------------ values
\* Every SQL value is an integer: generated ids count up from 1, the values a
\* client supplies are taken from disjoint ranges above them.
Undefined == 0 - 1     \* JS undefined (a field absent from the payload)
Null == 0              \* SQL NULL / JS null

\* The lists a client submits: k distinct values, k = 0..MaxLen.
RiesgoLists == { [i \in 1..k |-> 20 + i] : k \in 0..MaxLen }
EppLists == { [i \in 1..k |-> 30 + i] : k \in 0..MaxLen }

\* An element of respuestas without a `respuesta` field: r.respuesta is
\* undefined.
ShortAnswer == [pregunta |-> 101, respuesta |-> Undefined]

AnswerLists ==
  { [i \in 1..k |-> [pregunta |-> 100 + i, respuesta |-> 200 + i]] :
    k \in 0..MaxLen } \cup { <<ShortAnswer>> }

\* req.body of POST /areas/:id/puestos, with the route's :id as `area`;
\* `absent` names the fields the client left out.
PuestoBodies ==
  { [area |-> 80, puesto |-> 81, numero_usuarios |-> 3, descripcion |-> 83,
     criterio_epp |-> 84, riesgos |-> rs, epp |-> es, absent |-> {}] :
       rs \in RiesgoLists, es \in EppLists } \cup
  { [area |-> 80, puesto |-> 81, numero_usuarios |-> 3, descripcion |-> 83,
     criterio_epp |-> 84, riesgos |-> << >>, epp |-> << >>,
     absent |-> {"riesgos", "epp"}] }

\* The object a JSON text of req.body.data denotes.
Payloads ==
  { [puesto_id |-> 90, nom |-> 70, subopcion_id |-> 60, respuestas |-> as,
     absent |-> {}] : as \in AnswerLists }

\* What '{}' parses to: no field is present.
EmptyObject ==
  [puesto_id |-> Undefined, nom |-> Undefined, subopcion_id |-> Undefined,
   respuestas |-> << >>,
   absent |-> {"puesto_id", "nom", "subopcion_id", "respuestas"}]

\* req.body.data as received: absent, the empty string, a text that is not
\* JSON, the text "null", or the JSON text of an object.
DataFields ==
  { [kind |-> k, obj |-> EmptyObject] :
       k \in {"missing", "empty", "garbage", "null"} } \cup
  { [kind |-> "object", obj |-> p] : p \in Payloads }

\* `req.body.data || '{}'`: undefined and '' are falsy.
DataOrDefault(d) ==
  IF d.kind \in {"missing", "empty"} THEN [kind |-> "object", obj |-> EmptyObject]
  ELSE d

\* A parser that takes any text for the empty object.
JSONParseLenient(t) ==
  CASE t.kind = "null" -> [ok |-> TRUE, null |-> TRUE, obj |-> EmptyObject]
    [] OTHER           -> [ok |-> TRUE, null |-> FALSE, obj |-> t.obj]

\* JSON.parse: throws on a text that is not JSON, yields null for "null".
JSONParse(t) ==
  CASE t.kind = "garbage" -> [ok |-> FALSE, null |-> FALSE, obj |-> EmptyObject]
    [] t.kind = "null"    -> [ok |-> TRUE, null |-> TRUE, obj |-> EmptyObject]
    [] OTHER              -> [ok |-> TRUE, null |-> FALSE, obj |-> t.obj]

\* Destructuring `{ f = dflt } = obj`: an absent field takes the default
\* (undefined where the pattern gives none).
Field(obj, f, dflt) == IF f \in obj.absent THEN dflt ELSE obj[f]

\* ---------------------------------------------------------------- builders
\* A statement is its operation, its table, one sequence of placeholder
\* indices per VALUES group (the SQL text) and the bound parameter list.
Stmt(op, tbl, groups, params) ==
  [op |-> op, tbl |-> tbl, groups |-> groups, params |-> params]

Control(op) == Stmt(op, "", << >>, << >>)

\* A unit of work that opens no transaction.
BeginForgotten == Control("SELECT 1")

\* client.query('BEGIN')
Begin == Control("BEGIN")

\* client.query('COMMIT')
Commit == Control("COMMIT")

\* client.query('ROLLBACK')
Rollback == Control("ROLLBACK")

\* `params.push(puestoId, x)`
PairPush(params, puestoId, x) == params \o <<puestoId, x>>

\* The value of the row written into the text in place of its placeholder.
PairGroupInline(params) ==
  LET idx == Len(params) - 1 IN <<idx - 1, params[Len(params)]>>

\* `const idx = params.length - 1; return ($${idx - 1}, $${idx})`
PairGroup(params) ==
  LET idx == Len(params) - 1 IN <<idx - 1, idx>>

\* xs.map((x, i) => { push; group }).join(','), with the params it fills
RECURSIVE PairMap(_, _, _, _)
PairMap(puestoId, xs, params, groups) ==
  IF xs = << >> THEN [groups |-> groups, params |-> params]
  ELSE LET pushed == PairPush(params, puestoId, Head(xs))
       IN PairMap(puestoId, Tail(xs), pushed, Append(groups, PairGroup(pushed)))

RiesgosStmt(puestoId, riesgos) ==
  LET b == PairMap(puestoId, riesgos, << >>, << >>)
  IN Stmt("INSERT", "puestos_riesgos", b.groups, b.params)

EppStmt(puestoId, epp) ==
  LET b == PairMap(puestoId, epp, << >>, << >>)
  IN Stmt("INSERT", "puestos_epp", b.groups, b.params)

\* The base taken from the 1-based row number.
CuestBaseNext(i) == (i + 1) * 6

\* `const base = i * 6` with the 0-based map index i
CuestBase(i) == i * 6

\* `($${base + 1}, ..., $${base + 6})`
CuestGroup(base) ==
  <<base + 1, base + 2, base + 3, base + 4, base + 5, base + 6>>

\* The client's puesto_id pushed where the generated id belongs.
CuestPushClientId(params, payload, infoId, r) ==
  params \o << Field(payload, "puesto_id", Undefined),
               Field(payload, "nom", Undefined),
               Field(payload, "subopcion_id", Undefined),
               Field(payload, "puesto_id", Undefined), r.pregunta, r.respuesta >>

\* `params.push(puesto_id, nom, subopcion_id, infoId, r.pregunta, r.respuesta)`
CuestPush(params, payload, infoId, r) ==
  params \o << Field(payload, "puesto_id", Undefined),
               Field(payload, "nom", Undefined),
               Field(payload, "subopcion_id", Undefined),
               infoId, r.pregunta, r.respuesta >>

RECURSIVE CuestMap(_, _, _, _, _, _)
CuestMap(payload, infoId, rs, i, params, groups) ==
  IF rs = << >> THEN [groups |-> groups, params |-> params]
  ELSE CuestMap(payload, infoId, Tail(rs), i + 1,
                CuestPush(params, payload, infoId, Head(rs)),
                Append(groups, CuestGroup(CuestBase(i))))

RespuestasStmt(payload, infoId, respuestas) ==
  LET b == CuestMap(payload, infoId, respuestas, 0, << >>, << >>)
  IN Stmt("INSERT", "cuestionarios", b.groups, b.params)

PuestoStmt(body) ==
  Stmt("INSERT", "puestos_trabajo", << <<1, 2, 3, 4, 5>> >>,
       <<body.area, body.puesto, body.numero_usuarios, body.descripcion,
         body.criterio_epp>>)

\* `x || null`
OrNull(x) == IF x = Undefined THEN Null ELSE x

InfoStmt(payload) ==
  Stmt("INSERT", "cuestionarios_info", << <<1, 2, 3, 4, 5, 6, 7>> >>,
       << Field(payload, "puesto_id", Undefined),
          Field(payload, "nom", Undefined),
          Field(payload, "subopcion_id", Undefined),
          OrNull(Undefined), OrNull(Undefined), OrNull(Undefined), Null >>)

\* ------------------------------------------------------------------- state
VARIABLES
  pc,         \* per request: the await it is suspended at
  input,      \* per request: what the client sent
  conn,       \* per request: the connection `client` (0: none)
  genId,      \* per request: puestoId / infoId (0: not yet returned)
  resp,       \* per request: the responses sent, in order
  last,       \* per request: the statement last passed to client.query, and how it ended
  depFailed,  \* per request: an INSERT of dependent rows failed
  released,   \* per request: calls of client.release()
  faulted,    \* per request: the pool or the store failed it without cause
  pool,       \* per connection: holder, transaction state, uncommitted rows
  committed,  \* the rows every session sees
  seq,        \* per table: the last id its sequence generated
  faults,     \* failures injected so far
  rd          \* the GET /cuestionario-completo request: position, id, reads, response

vars == <<pc, input, conn, genId, resp, last, depFailed, released, faulted, pool,
          committed, seq, faults, rd>>

DepTables == {"puestos_riesgos", "puestos_epp", "cuestionarios"}

SeqTables == {"puestos_trabajo", "cuestionarios_info", "cuestionarios"}

NoQuery == [st |-> Control(""), out |-> ""]

FreshConn == [holder |-> 0, tx |-> "idle", pending |-> {}]

\* No response sent yet by the GET handler.
NoBody == [status |-> 0, info |-> << >>, respuestas |-> << >>]

\* The GET handler before its request arrives: `info` is the header row of
\* line 339 once read, `reads` counts the db.query calls made, `after` notes
\* whether the submission that was given this id had been answered when the
\* GET arrived.
NoGet == [pc |-> "idle", id |-> 0, info |-> << >>, reads |-> 0, after |-> FALSE,
          body |-> NoBody]

Init ==
  /\ pc = [r \in Reqs |-> "idle"]
  /\ input = [r \in Reqs |-> [route |-> "none"]]
  /\ conn = [r \in Reqs |-> 0]
  /\ genId = [r \in Reqs |-> 0]
  /\ resp = [r \in Reqs |-> << >>]
  /\ last = [r \in Reqs |-> NoQuery]
  /\ depFailed = [r \in Reqs |-> FALSE]
  /\ released = [r \in Reqs |-> 0]
  /\ faulted = [r \in Reqs |-> FALSE]
  /\ pool = [c \in Conns |-> FreshConn]
  /\ committed = {}
  /\ seq = [t \in SeqTables |-> 0]
  /\ faults = 0
  /\ rd = NoGet

\* ------------------------------------------------------------------- store
\* PostgreSQL behind client.query.  A statement whose placeholders are not
\* exactly $1..$n for its n bound parameters is rejected when it is parsed
\* ("there is no parameter $0", "bind message supplies 2 parameters, but
\* prepared statement requires 1"), and so is an INSERT with no VALUES group.
Indices(st) ==
  UNION { { st.groups[g][k] : k \in DOMAIN st.groups[g] } :
          g \in DOMAIN st.groups }

WellFormed(st) == Len(st.groups) > 0 /\ Indices(st) = 1..Len(st.params)

\* pg sends undefined as NULL.
Bind(v) == IF v = Undefined THEN Null ELSE v

\* The rows an INSERT adds: group g takes the parameters its placeholders
\* name; tables with a serial id number their rows on from the sequence.
RowsOf(st, r) ==
  { [tbl |-> st.tbl,
     id |-> IF st.tbl \in SeqTables THEN seq[st.tbl] + g ELSE 0,
     vals |-> [k \in DOMAIN st.groups[g] |-> Bind(st.params[st.groups[g][k]])],
     by |-> r] : g \in DOMAIN st.groups }

\* The store must reject the statement (the connection being alive).
Rejected(c, st) ==
  \/ st.op = "INSERT" /\ ~WellFormed(st)
  \/ st.op \in {"INSERT", "BEGIN"} /\ pool[c].tx = "aborted"

\* How a statement can end: "ok", "error" (the server rejects it, the
\* connection lives), "dead" (the connection is lost before the server acts)
\* or, for a COMMIT, "lost" (the server commits, the connection is lost
\* before the client hears of it).
Outs == {"ok", "error", "dead", "lost"}

Outcomes(c, st) ==
  IF pool[c].tx = "dead" THEN {"dead"}
  ELSE IF Rejected(c, st) THEN {"error"}
  ELSE {"ok"}

\* The failures a live connection can meet.  The server has no reason to
\* refuse a ROLLBACK: it fails only with the connection.
Failures(st) ==
  CASE st.op = "ROLLBACK" -> {"dead"}
    [] st.op = "COMMIT" -> {"error", "dead", "lost"}
    [] OTHER -> {"error", "dead"}

\* The outcome is a failure the store injects: the statement could have
\* succeeded, or the connection is lost now.
Injected(c, st, out) == out \notin Outcomes(c, st)

\* The connection after the statement.
ConnAfter(c, st, out, r) ==
  LET k == pool[c] IN
  CASE out \in {"dead", "lost"} -> [k EXCEPT !.tx = "dead", !.pending = {}]
    [] out = "error" /\ st.op = "INSERT" /\ k.tx = "open" ->
         [k EXCEPT !.tx = "aborted"]
    [] out = "error" /\ st.op = "COMMIT" ->
         [k EXCEPT !.tx = "idle", !.pending = {}]
    [] out = "ok" /\ st.op = "BEGIN" /\ k.tx = "idle" ->
         [k EXCEPT !.tx = "open"]
    [] out = "ok" /\ st.op = "INSERT" /\ k.tx = "open" ->
         [k EXCEPT !.pending = @ \cup RowsOf(st, r)]
    [] out = "ok" /\ st.op \in {"COMMIT", "ROLLBACK"} ->
         [k EXCEPT !.tx = "idle", !.pending = {}]
    [] OTHER -> k

\* COMMIT as an upsert on content: a committed row with the values of a
\* published one is replaced by it.
CommittedDeduplicated(c, st, out, r) ==
  IF out \in {"ok", "lost"} /\ st.op = "COMMIT" /\ pool[c].tx = "open"
  THEN { w \in committed :
           \A v \in pool[c].pending : v.tbl # w.tbl \/ v.vals # w.vals }
       \cup pool[c].pending
  ELSE committed

\* The committed rows after the statement: COMMIT publishes the open
\* transaction's rows, an INSERT outside a transaction commits by itself.
CommittedAfter(c, st, out, r) ==
  CASE out \in {"ok", "lost"} /\ st.op = "COMMIT" /\ pool[c].tx = "open" ->
         committed \cup pool[c].pending
    [] out = "ok" /\ st.op = "INSERT" /\ pool[c].tx = "idle" ->
         committed \cup RowsOf(st, r)
    [] OTHER -> committed

SeqAfter(st, out) ==
  IF out = "ok" /\ st.op = "INSERT" /\ st.tbl \in SeqTables
  THEN [seq EXCEPT ![st.tbl] = @ + Len(st.groups)]
  ELSE seq

\* Every connection counts as idle.
IdleAny(c) == TRUE

\* The pool lends only a connection that is not checked out.
Idle(c) == pool[c].holder = 0

\* A handler that leaves the client checked out.
ReleaseForgotten(k) == k

\* pg-pool's release: a client that lost its connection is dropped and
\* replaced on demand, any other goes back to the idle list as it is.
Release(k) == IF k.tx = "dead" THEN FreshConn ELSE [k EXCEPT !.holder = 0]

\* `await client.query(st)` of request r ending with outcome out; fin says
\* that the handler's `finally` runs before it suspends again.
Query(r, st, out, fin) ==
  LET c == conn[r] IN
  /\ \/ out \in Outcomes(c, st)
     \/ out \in Failures(st) /\ pool[c].tx # "dead" /\ faults < MaxFaults
  /\ faults' = IF Injected(c, st, out) THEN faults + 1 ELSE faults
  /\ pool' = [pool EXCEPT ![c] = IF fin THEN Release(ConnAfter(c, st, out, r))
                                  ELSE ConnAfter(c, st, out, r)]
  /\ released' = [released EXCEPT ![r] = IF fin THEN @ + 1 ELSE @]
  /\ conn' = [conn EXCEPT ![r] = IF fin THEN 0 ELSE @]
  /\ committed' = CommittedAfter(c, st, out, r)
  /\ seq' = SeqAfter(st, out)
  /\ last' = [last EXCEPT ![r] = [st |-> st, out |-> out]]
  /\ depFailed' = [depFailed EXCEPT ![r] = @ \/ (out # "ok" /\ st.tbl \in DepTables)]
  /\ faulted' = [faulted EXCEPT ![r] = @ \/ Injected(c, st, out)]

\* --------------------------------------------------------------- responses
\* res.json({ success: true, id: puestoId })
PuestoCreated(id) == [status |-> 200, body |-> "success", id |-> id]

\* res.json({ message: 'Cuestionario guardado correctamente', info_id })
CuestSaved(id) ==
  [status |-> 200, body |-> "Cuestionario guardado correctamente", id |-> id]

\* handleServerError: res.status(500).json({ error: 'Error en el servidor' })
ServerError == [status |-> 500, body |-> "Error en el servidor", id |-> 0]

\* res.status(400).json({ error: 'Datos inválidos' })
InvalidData == [status |-> 400, body |-> "Datos invalidos", id |-> 0]

\* What the framework's own error handler sends for a handler that threw:
\* the status 500 and the error's stack.
FrameworkError == [status |-> 500, body |-> "err.stack", id |-> 0]

\* The handler's promise rejects with no catch around it.  Express 4 never
\* learns of it and sends nothing; Express 5 passes it to its error handler.
Rejects(r) ==
  \E sent \in {<< >>, <<FrameworkError>>} :
     resp' = [resp EXCEPT ![r] = @ \o sent]

Responds(r, body) == resp' = [resp EXCEPT ![r] = Append(@, body)]

\* ----------------------------------------------------- POST /areas/:id/puestos
PostPuesto(r) ==
  /\ pc[r] = "idle"
  /\ \E b \in PuestoBodies :
       input' = [input EXCEPT ![r] = [route |-> "puestos", body |-> b]]
  /\ pc' = [pc EXCEPT ![r] = "connect"]
  /\ UNCHANGED <<rd, conn, genId, resp, last, depFailed, released, faulted, pool,
                 committed, seq, faults>>

\* `const { ..., riesgos = [], epp = [], ... } = req.body`
Riesgos(r) == Field(input[r].body, "riesgos", << >>)
Epp(r) == Field(input[r].body, "epp", << >>)

\* The guard without its length test.
NonEmptyAlways(xs) == Len(xs) >= 0

\* `Array.isArray(xs) && xs.length > 0`
NonEmpty(xs) == Len(xs) > 0

\* The await the handler reaches after the parent insert / the riesgos insert.
AfterPuesto(r) ==
  IF NonEmpty(Riesgos(r)) THEN "riesgos"
  ELSE IF NonEmpty(Epp(r)) THEN "epp" ELSE "COMMIT"

AfterRiesgos(r) == IF NonEmpty(Epp(r)) THEN "epp" ELSE "COMMIT"

\* `const client = await db.connect()` resolves; the handler issues BEGIN.
PuestoConnect(r) ==
  /\ pc[r] = "connect" /\ input[r].route = "puestos"
  /\ \E c \in Conns :
       /\ Idle(c)
       /\ pool' = [pool EXCEPT ![c].holder = r]
       /\ conn' = [conn EXCEPT ![r] = c]
  /\ pc' = [pc EXCEPT ![r] = "BEGIN"]
  /\ UNCHANGED <<rd, input, genId, resp, last, depFailed, released, faulted, committed, seq, faults>>

\* db.connect() rejects: line 152 is outside the try.
PuestoConnectFails(r) ==
  /\ pc[r] = "connect" /\ input[r].route = "puestos"
  /\ faults < MaxFaults
  /\ faults' = faults + 1
  /\ Rejects(r)
  /\ pc' = [pc EXCEPT ![r] = "done"]
  /\ faulted' = [faulted EXCEPT ![r] = TRUE]
  /\ UNCHANGED <<rd, input, conn, genId, last, depFailed, released, pool, committed, seq>>

PuestoBegin(r) ==
  /\ pc[r] = "BEGIN" /\ input[r].route = "puestos"
  /\ \E out \in Outs :
       /\ Query(r, Begin, out, FALSE)
       /\ pc' = [pc EXCEPT ![r] = IF out = "ok" THEN "parent" ELSE "ROLLBACK"]
  /\ UNCHANGED <<rd, input, genId, resp>>

PuestoInsert(r) ==
  /\ pc[r] = "parent" /\ input[r].route = "puestos"
  /\ \E out \in Outs :
       /\ Query(r, PuestoStmt(input[r].body), out, FALSE)
       /\ pc' = [pc EXCEPT ![r] = IF out = "ok" THEN AfterPuesto(r) ELSE "ROLLBACK"]
       /\ genId' = [genId EXCEPT ![r] =
                     IF out = "ok" THEN seq["puestos_trabajo"] + 1 ELSE @]
  /\ UNCHANGED <<rd, input, resp>>

PuestoRiesgos(r) ==
  /\ pc[r] = "riesgos" /\ input[r].route = "puestos"
  /\ \E out \in Outs :
       /\ Query(r, RiesgosStmt(genId[r], Riesgos(r)), out, FALSE)
       /\ pc' = [pc EXCEPT ![r] = IF out = "ok" THEN AfterRiesgos(r) ELSE "ROLLBACK"]
  /\ UNCHANGED <<rd, input, genId, resp>>

PuestoEpp(r) ==
  /\ pc[r] = "epp" /\ input[r].route = "puestos"
  /\ \E out \in Outs :
       /\ Query(r, EppStmt(genId[r], Epp(r)), out, FALSE)
       /\ pc' = [pc EXCEPT ![r] = IF out = "ok" THEN "COMMIT" ELSE "ROLLBACK"]
  /\ UNCHANGED <<rd, input, genId, resp>>

\* COMMIT resolves: respond, then `finally`; COMMIT rejects: to the catch.
PuestoCommit(r) ==
  /\ pc[r] = "COMMIT" /\ input[r].route = "puestos"
  /\ \E out \in Outs :
       /\ Query(r, Commit, out, out = "ok")
       /\ pc' = [pc EXCEPT ![r] = IF out = "ok" THEN "done" ELSE "ROLLBACK"]
       /\ IF out = "ok" THEN Responds(r, PuestoCreated(genId[r]))
          ELSE UNCHANGED resp
  /\ UNCHANGED <<rd, input, genId>>

\* The catch: ROLLBACK resolves: handleServerError, then `finally`; ROLLBACK
\* rejects: the catch throws, `finally` runs, the handler's promise rejects.
PuestoRollback(r) ==
  /\ pc[r] = "ROLLBACK" /\ input[r].route = "puestos"
  /\ \E out \in Outs :
       /\ Query(r, Rollback, out, TRUE)
       /\ IF out = "ok" THEN Responds(r, ServerError) ELSE Rejects(r)
  /\ pc' = [pc EXCEPT ![r] = "done"]
  /\ UNCHANGED <<rd, input, genId>>

\* ------------------------------------------------------- POST /cuestionario
\* The handler up to its first await: parse req.body.data, destructure the
\* payload, call db.connect().
PostCuestionario(r) ==
  /\ pc[r] = "idle"
  /\ \E d \in DataFields :
       LET parsed == JSONParse(DataOrDefault(d)) IN
       /\ input' = [input EXCEPT ![r] =
                      [route |-> "cuestionario", data |-> d, payload |-> parsed.obj]]
       /\ CASE ~parsed.ok ->     \* the catch of lines 263-265
                 /\ Responds(r, InvalidData)
                 /\ pc' = [pc EXCEPT ![r] = "done"]
            [] parsed.null ->     \* destructuring null throws, outside any try
                 /\ Rejects(r)
                 /\ pc' = [pc EXCEPT ![r] = "done"]
            [] OTHER ->
                 /\ UNCHANGED resp
                 /\ pc' = [pc EXCEPT ![r] = "connect"]
  /\ UNCHANGED <<rd, conn, genId, last, depFailed, released, faulted, pool, committed, seq, faults>>

\* `const { ..., respuestas = [], ... } = payload`
Respuestas(r) == Field(input[r].payload, "respuestas", << >>)

\* Straight to COMMIT, the answers left out.
AfterInfoSkip(r) == "COMMIT"

\* After the header: the answers if there are any (line 282), else COMMIT.
AfterInfo(r) == IF NonEmpty(Respuestas(r)) THEN "respuestas" ELSE "COMMIT"

CuestConnect(r) ==
  /\ pc[r] = "connect" /\ input[r].route = "cuestionario"
  /\ \E c \in Conns :
       /\ Idle(c)
       /\ pool' = [pool EXCEPT ![c].holder = r]
       /\ conn' = [conn EXCEPT ![r] = c]
  /\ pc' = [pc EXCEPT ![r] = "BEGIN"]
  /\ UNCHANGED <<rd, input, genId, resp, last, depFailed, released, faulted, committed, seq, faults>>

\* db.connect() rejects: line 270 is outside the try.
CuestConnectFails(r) ==
  /\ pc[r] = "connect" /\ input[r].route = "cuestionario"
  /\ faults < MaxFaults
  /\ faults' = faults + 1
  /\ Rejects(r)
  /\ pc' = [pc EXCEPT ![r] = "done"]
  /\ faulted' = [faulted EXCEPT ![r] = TRUE]
  /\ UNCHANGED <<rd, input, conn, genId, last, depFailed, released, pool, committed, seq>>

CuestBegin(r) ==
  /\ pc[r] = "BEGIN" /\ input[r].route = "cuestionario"
  /\ \E out \in Outs :
       /\ Query(r, Begin, out, FALSE)
       /\ pc' = [pc EXCEPT ![r] = IF out = "ok" THEN "parent" ELSE "ROLLBACK"]
  /\ UNCHANGED <<rd, input, genId, resp>>

CuestInsertInfo(r) ==
  /\ pc[r] = "parent" /\ input[r].route = "cuestionario"
  /\ \E out \in Outs :
       /\ Query(r, InfoStmt(input[r].payload), out, FALSE)
       /\ pc' = [pc EXCEPT ![r] = IF out = "ok" THEN AfterInfo(r) ELSE "ROLLBACK"]
       /\ genId' = [genId EXCEPT ![r] =
                     IF out = "ok" THEN seq["cuestionarios_info"] + 1 ELSE @]
  /\ UNCHANGED <<rd, input, resp>>

CuestRespuestas(r) ==
  /\ pc[r] = "respuestas" /\ input[r].route = "cuestionario"
  /\ \E out \in Outs :
       /\ Query(r, RespuestasStmt(input[r].payload, genId[r], Respuestas(r)),
                out, FALSE)
       /\ pc' = [pc EXCEPT ![r] = IF out = "ok" THEN "COMMIT" ELSE "ROLLBACK"]
  /\ UNCHANGED <<rd, input, genId, resp>>

CuestCommit(r) ==
  /\ pc[r] = "COMMIT" /\ input[r].route = "cuestionario"
  /\ \E out \in Outs :
       /\ Query(r, Commit, out, out = "ok")
       /\ pc' = [pc EXCEPT ![r] = IF out = "ok" THEN "done" ELSE "ROLLBACK"]
       /\ IF out = "ok" THEN Responds(r, CuestSaved(genId[r]))
          ELSE UNCHANGED resp
  /\ UNCHANGED <<rd, input, genId>>

CuestRollback(r) ==
  /\ pc[r] = "ROLLBACK" /\ input[r].route = "cuestionario"
  /\ \E out \in Outs :
       /\ Query(r, Rollback, out, TRUE)
       /\ IF out = "ok" THEN Responds(r, ServerError) ELSE Rejects(r)
  /\ pc' = [pc EXCEPT ![r] = "done"]
  /\ UNCHANGED <<rd, input, genId>>

\* ------------------------------------------- GET /cuestionario-completo/:id
\* The ids a client asks for: those the sequence can have generated for the
\* submissions of one run, and one it cannot.
InfoIds == 1..(Cardinality(Reqs) + 1)

\* `x || 'N/A'`; 'N/A' is a value no column holds.
NA == 0 - 2

OrNA(x) == IF x = Null THEN NA ELSE x

\* The header read seeing the uncommitted rows of open transactions too.
SelectInfoDirty(id) ==
  { w \in committed \cup UNION { pool[c].pending : c \in Conns } :
      w.tbl = "cuestionarios_info" /\ w.id = id }

\* SELECT * FROM cuestionarios_info WHERE id = $1, on what is committed.
SelectInfo(id) == { w \in committed : w.tbl = "cuestionarios_info" /\ w.id = id }

\* ORDER BY id, descending.
RECURSIVE OrderByIdDesc(_)
OrderByIdDesc(rows) ==
  IF rows = {} THEN << >>
  ELSE LET m == CHOOSE w \in rows : \A v \in rows : w.id >= v.id
       IN <<m>> \o OrderByIdDesc(rows \ {m})

\* ORDER BY id
RECURSIVE OrderById(_)
OrderById(rows) ==
  IF rows = {} THEN << >>
  ELSE LET m == CHOOSE w \in rows : \A v \in rows : w.id <= v.id
       IN <<m>> \o OrderById(rows \ {m})

\* SELECT pregunta, respuesta FROM cuestionarios WHERE info_id = $1 ORDER BY id
SelectRespuestas(id) ==
  LET rows == OrderById({ w \in committed :
                            w.tbl = "cuestionarios" /\ w.vals[4] = id })
  IN [i \in DOMAIN rows |->
        [pregunta |-> rows[i].vals[5], respuesta |-> rows[i].vals[6]]]

\* A not-found answer with an error status.
NotFoundAsError == [status |-> 404, info |-> << >>, respuestas |-> << >>]

\* `res.json({ info: null, respuestas: [] })`
NotFound == [status |-> 200, info |-> << >>, respuestas |-> << >>]

\* The response of lines 343-352 (created_at, the insertion time, is left out).
Completo(row, respuestas) ==
  [status |-> 200,
   info |-> << [observaciones |-> OrNA(row.vals[4]),
                recomendaciones |-> OrNA(row.vals[5]),
                recomendaciones_epp |-> OrNA(row.vals[6]),
                image |-> OrNull(row.vals[7])] >>,
   respuestas |-> respuestas]

\* handleServerError from the catch of lines 353-355.
GetError == [status |-> 500, info |-> << >>, respuestas |-> << >>]

\* db.query runs one statement on a client the pool has idle and hands the
\* client back; no code of the program runs in between.
IdleClient == \E c \in Conns : Idle(c)

\* The request arrives; the handler calls db.query (line 339) and awaits.
GetCompleto ==
  /\ rd.pc = "idle"
  /\ \E id \in InfoIds :
       rd' = [rd EXCEPT !.pc = "header", !.id = id, !.reads = 1,
                        !.after = \E r \in Reqs : /\ input[r].route = "cuestionario"
                                                  /\ resp[r] = <<CuestSaved(id)>>]
  /\ UNCHANGED <<pc, input, conn, genId, resp, last, depFailed, released, faulted,
                 pool, committed, seq, faults>>

\* The header read resolves: no row: respond (line 340); a row: issue the
\* answers read (line 341).  It rejects: the catch responds 500.
GetHeader ==
  /\ rd.pc = "header"
  /\ IdleClient
  /\ \/ /\ LET rows == SelectInfo(rd.id) IN
             IF rows = {}
             THEN rd' = [rd EXCEPT !.pc = "done", !.body = NotFound]
             ELSE rd' = [rd EXCEPT !.pc = "answers", !.reads = 2,
                                   !.info = <<CHOOSE w \in rows : TRUE>>]
        /\ UNCHANGED faults
     \/ /\ faults < MaxFaults
        /\ faults' = faults + 1
        /\ rd' = [rd EXCEPT !.pc = "done", !.body = GetError]
  /\ UNCHANGED <<pc, input, conn, genId, resp, last, depFailed, released, faulted,
                 pool, committed, seq>>

\* The answers read resolves: respond (lines 343-352).  It rejects: 500.
GetAnswers ==
  /\ rd.pc = "answers"
  /\ IdleClient
  /\ \/ /\ rd' = [rd EXCEPT !.pc = "done",
                            !.body = Completo(rd.info[1], SelectRespuestas(rd.id))]
        /\ UNCHANGED faults
     \/ /\ faults < MaxFaults
        /\ faults' = faults + 1
        /\ rd' = [rd EXCEPT !.pc = "done", !.body = GetError]
  /\ UNCHANGED <<pc, input, conn, genId, resp, last, depFailed, released, faulted,
                 pool, committed, seq>>

\* ------------------------------------------------------------------ system
\* The two transactional handlers under concurrent requests.
Next ==
  \E r \in Reqs :
     \/ PostPuesto(r)
     \/ PuestoConnect(r)
     \/ PuestoConnectFails(r)
     \/ PuestoBegin(r)
     \/ PuestoInsert(r)
     \/ PuestoRiesgos(r)
     \/ PuestoEpp(r)
     \/ PuestoCommit(r)
     \/ PuestoRollback(r)
     \/ PostCuestionario(r)
     \/ CuestConnect(r)
     \/ CuestConnectFails(r)
     \/ CuestBegin(r)
     \/ CuestInsertInfo(r)
     \/ CuestRespuestas(r)
     \/ CuestCommit(r)
     \/ CuestRollback(r)

Spec == Init /\ [][Next]_vars

\* Questionnaire submissions with a concurrent GET /cuestionario-completo.
NextR ==
  \/ \E r \in Reqs :
        \/ PostCuestionario(r)
        \/ CuestConnect(r)
        \/ CuestConnectFails(r)
        \/ CuestBegin(r)
        \/ CuestInsertInfo(r)
        \/ CuestRespuestas(r)
        \/ CuestCommit(r)
        \/ CuestRollback(r)
  \/ GetCompleto
  \/ GetHeader
  \/ GetAnswers

SpecR == Init /\ [][NextR]_vars

\* ================================================================== claims
InUnit == {"BEGIN", "parent", "riesgos", "epp", "respuestas", "COMMIT", "ROLLBACK"}

\* The placeholder indices of a statement read left to right.
RECURSIVE Flatten(_)
Flatten(groups) ==
  IF groups = << >> THEN << >> ELSE Head(groups) \o Flatten(Tail(groups))

Iota(n) == [j \in 1..n |-> j]

\* The list a request's last statement was built from.
ListOf(r) ==
  CASE last[r].st.tbl = "puestos_riesgos" -> Riesgos(r)
    [] last[r].st.tbl = "puestos_epp" -> Epp(r)
    [] OTHER -> Respuestas(r)

\* C1: every multi-row INSERT of Position Creation built from a non-empty
\* list of n risk (PPE) ids has n placeholder groups of width 2 whose
\* indices, read left to right, are 1, 2, ..., 2n, each naming a position of
\* the 2n-element parameter list.
C1_PairPlaceholders ==
  \A r \in Reqs :
     last[r].st.tbl \in {"puestos_riesgos", "puestos_epp"} =>
        LET n == Len(ListOf(r)) IN
        /\ Len(last[r].st.groups) = n
        /\ \A i \in 1..n : last[r].st.groups[i] = <<2 * i - 1, 2 * i>>
        /\ Flatten(last[r].st.groups) = Iota(2 * n)
        /\ Len(last[r].st.params) = 2 * n

\* The row the i-th answer of request r is meant to become.
AnswerRow(r, i) ==
  << input[r].payload.puesto_id, input[r].payload.nom,
     input[r].payload.subopcion_id, genId[r],
     Respuestas(r)[i].pregunta, Respuestas(r)[i].respuesta >>

\* C2: the multi-row INSERT of Questionnaire Submission built from n >= 1
\* answers has n placeholder groups of width 6 whose indices are 1..6n in
\* increasing contiguous order, and its 6n parameters are the rows
\* (puesto_id, nom, subopcion_id, infoId, pregunta, respuesta) in row-major
\* order.
C2_CuestPlaceholders ==
  \A r \in Reqs :
     last[r].st.tbl = "cuestionarios" =>
        LET n == Len(Respuestas(r)) IN
        /\ n >= 1
        /\ Len(last[r].st.groups) = n
        /\ \A i \in 1..n : Len(last[r].st.groups[i]) = 6
        /\ Flatten(last[r].st.groups) = Iota(6 * n)
        /\ Len(last[r].st.params) = 6 * n
        /\ \A j \in 1..(6 * n) :
              last[r].st.params[j] =
                AnswerRow(r, ((j - 1) \div 6) + 1)[((j - 1) % 6) + 1]

C2_Witness ==
  \E r \in Reqs :
     /\ last[r].st.tbl = "cuestionarios"
     /\ last[r].out = "ok"
     /\ Len(last[r].st.groups) = MaxLen

\* Every row a request's statements produced, committed or not.
AllRows == committed \cup UNION { pool[c].pending : c \in Conns }

RowsBy(rows, r) == { w \in rows : w.by = r }

ParentTable(r) ==
  IF input[r].route = "puestos" THEN "puestos_trabajo" ELSE "cuestionarios_info"

\* C3: if an INSERT of dependent rows (risk associations, PPE associations,
\* answers) failed, then once the request has ended no row it created is in
\* the store, committed or pending: neither the parent row nor any
\* dependent row.
C3_Atomicity ==
  \A r \in Reqs :
     (pc[r] = "done" /\ depFailed[r]) => RowsBy(AllRows, r) = {}

C3_Witness ==
  \E r \in Reqs :
     /\ pc[r] = "done" /\ depFailed[r] /\ genId[r] > 0
     /\ input[r].route = "cuestionario"
     /\ \E q \in Reqs : RowsBy(committed, q) # {}

\* C4: Position Creation with a non-empty riesgos list and an empty epp
\* list, no failure being injected, ends with the response
\* {success: true, id: N}, N the generated id, position N committed and
\* exactly one committed puestos_riesgos row (N, x) per submitted risk id x.
C4_RiesgosOnlySucceeds ==
  \A r \in Reqs :
     ( /\ pc[r] = "done" /\ input[r].route = "puestos"
       /\ NonEmpty(Riesgos(r)) /\ ~NonEmpty(Epp(r))
       /\ ~faulted[r] ) =>
        /\ genId[r] > 0
        /\ resp[r] = <<PuestoCreated(genId[r])>>
        /\ \E w \in RowsBy(committed, r) :
              w.tbl = "puestos_trabajo" /\ w.id = genId[r]
        /\ { w.vals : w \in { x \in RowsBy(committed, r) :
                                 x.tbl = "puestos_riesgos" } }
              = { <<genId[r], Riesgos(r)[i]>> : i \in DOMAIN Riesgos(r) }

\* The request never held a connection, issued no statement, made no row.
Untouched(r) ==
  /\ conn[r] = 0 /\ released[r] = 0
  /\ last[r] = NoQuery
  /\ RowsBy(AllRows, r) = {}

\* C5 as claimed: a Questionnaire Submission whose data field is missing or
\* does not parse as JSON is answered 400 {error: "Datos invalidos"} with no
\* connection acquired, no statement issued and no header row created.
C5_MissingOrUnparsable400 ==
  \A r \in Reqs :
     ( /\ input[r].route = "cuestionario"
       /\ input[r].data.kind \in {"missing", "empty", "garbage"} ) =>
        /\ pc[r] = "done"
        /\ resp[r] = <<InvalidData>>
        /\ Untouched(r)

\* C5 as amended: a data field that is a non-empty text and does not parse
\* as JSON is answered 400 {error: "Datos invalidos"} with no connection
\* acquired, no statement issued and no header row created; a missing or
\* empty data field is read as the object {} and is never answered 400.
C5_Unparsable400 ==
  \A r \in Reqs :
     input[r].route = "cuestionario" =>
        /\ input[r].data.kind = "garbage" =>
              /\ pc[r] = "done"
              /\ resp[r] = <<InvalidData>>
              /\ Untouched(r)
        /\ input[r].data.kind \in {"missing", "empty"} =>
              /\ input[r].payload = EmptyObject
              /\ \A i \in DOMAIN resp[r] : resp[r][i] # InvalidData

C5_Witness ==
  /\ \E r \in Reqs :
        input[r].route = "cuestionario" /\ input[r].data.kind = "garbage"
  /\ \E r \in Reqs :
        /\ input[r].route = "cuestionario" /\ input[r].data.kind = "missing"
        /\ pc[r] = "done" /\ resp[r] = <<CuestSaved(genId[r])>>

\* The column of a dependent table that holds the parent's id.
FkColumn(tbl) == IF tbl = "cuestionarios" THEN 4 ELSE 1

PastParsing(r) ==
  \/ input[r].route = "puestos"
  \/ input[r].route = "cuestionario" /\ JSONParse(DataOrDefault(input[r].data)).ok
                                      /\ ~JSONParse(DataOrDefault(input[r].data)).null

\* C7: a write request that has ended, whatever failed on its way
\* (db.connect, BEGIN, an INSERT, COMMIT, ROLLBACK), was sent exactly one
\* response.
C7_OneResponse ==
  \A r \in Reqs :
     (pc[r] = "done" /\ PastParsing(r)) => Len(resp[r]) = 1

\* A connection is checked out by the request it names, and by no other.
PoolConsistent ==
  /\ \A c \in Conns :
        pool[c].holder # 0 =>
           conn[pool[c].holder] = c /\ pc[pool[c].holder] \in InUnit
  /\ \A r \in Reqs :
        /\ pc[r] \in InUnit =>
              conn[r] # 0 /\ pool[conn[r]].holder = r /\ released[r] = 0
        /\ pc[r] \notin InUnit => conn[r] = 0

C8_Inv ==
  /\ PoolConsistent
  /\ \A r \in Reqs :
        /\ released[r] <= 1
        /\ released[r] = 1 => pc[r] = "done"
        /\ pc[r] = "done" => (released[r] = 1 <=> last[r] # NoQuery)
        /\ pc[r] = "done" /\ last[r] # NoQuery =>
              last[r].st.op \in {"COMMIT", "ROLLBACK"}
  /\ (\A r \in Reqs : pc[r] \in {"idle", "done"}) =>
        \A c \in Conns : pool[c].holder = 0

\* C8: a connection a unit of work acquired is released exactly once, when
\* its last statement (COMMIT, or ROLLBACK whether it succeeded or not) has
\* ended, and the request issues no statement and takes no connection after
\* that; when no request is in flight no connection is checked out.
C8_ReleasedOnce ==
  /\ []C8_Inv
  /\ [][\A r \in Reqs :
          released[r] = 1 =>
             last'[r] = last[r] /\ conn'[r] = 0 /\ released'[r] = 1]_vars

C8_Witness ==
  /\ \A r \in Reqs : pc[r] = "done" /\ released[r] = 1
  /\ \E r \in Reqs : last[r].st.op = "ROLLBACK" /\ last[r].out = "dead"
  /\ \E r \in Reqs : last[r].st.op = "COMMIT"

\* C9: a request of which a dependent INSERT failed has issued ROLLBACK as
\* its last statement and was answered 500 {error: 'Error en el servidor'},
\* and nothing else.
C9_GenericError ==
  \A r \in Reqs :
     (pc[r] = "done" /\ depFailed[r]) =>
        /\ last[r].st = Rollback
        /\ resp[r] = <<ServerError>>

\* Every dependent list of the request is empty.
NoDependents(r) ==
  \/ input[r].route = "puestos" /\ Riesgos(r) = << >> /\ Epp(r) = << >>
  \/ input[r].route = "cuestionario" /\ PastParsing(r) /\ Respuestas(r) = << >>

WellShaped(rs) ==
  \A i \in DOMAIN rs : rs[i].pregunta # Undefined /\ rs[i].respuesta # Undefined

\* Request r was answered that its questionnaire is saved under id.
SavedAs(r, id) ==
  input[r].route = "cuestionario" /\ resp[r] = <<CuestSaved(id)>>

\* C11: a GET /cuestionario-completo/M that arrives after a submission was
\* answered with info_id M, and that is answered itself, carries the header
\* and exactly the submitted (pregunta, respuesta) pairs in submission order,
\* whatever other submissions do before, after or meanwhile.
C11_RoundTrip ==
  \A r \in Reqs :
    ( /\ rd.pc = "done" /\ rd.after /\ rd.body.status = 200
      /\ SavedAs(r, rd.id)
      /\ WellShaped(Respuestas(r)) )
    => /\ rd.body.info # << >>
       /\ rd.body.respuestas = Respuestas(r)

\* A round trip of two answers while the other submission, with answers of
\* its own, was saved too.
C11_Witness ==
  \E r, q \in Reqs :
    /\ r # q
    /\ rd.pc = "done" /\ rd.after /\ rd.body.status = 200
    /\ SavedAs(r, rd.id) /\ SavedAs(q, genId[q])
    /\ Len(Respuestas(r)) >= 2 /\ Len(Respuestas(q)) >= 1
    /\ rd.body.respuestas = Respuestas(r)

\* db.connect() rejected for request r: it ended past parsing without ever
\* holding a connection.
AcquireFailed(r) ==
  pc[r] = "done" /\ PastParsing(r) /\ faulted[r] /\ released[r] = 0

\* C12: a request whose connection could not be acquired was sent a
\* server-error response, issued no statement, and holds no connection and
\* no transaction.
C12_AcquireFailure ==
  \A r \in Reqs :
    AcquireFailed(r) =>
      /\ Len(resp[r]) = 1 /\ resp[r][1].status = 500
      /\ last[r] = NoQuery
      /\ conn[r] = 0 /\ \A c \in Conns : pool[c].holder # r
      /\ RowsBy(AllRows, r) = {}

\* C13: a submission with an element of respuestas that lacks pregunta or
\* respuesta never issues the INSERT of answers, persists no row and is not
\* answered as saved.
C13_MalformedRowFails ==
  \A r \in Reqs :
    ( /\ input[r].route = "cuestionario" /\ PastParsing(r)
      /\ ~WellShaped(Respuestas(r)) )
    => /\ last[r].st.tbl # "cuestionarios"
       /\ RowsBy(AllRows, r) \cap { w \in AllRows : w.tbl = "cuestionarios" } = {}
       /\ RowsBy(committed, r) = {}
       /\ \A i \in DOMAIN resp[r] : resp[r][i].status # 200

\* The SQL text of a statement: everything but the bound parameters.
Text(st) == [op |-> st.op, tbl |-> st.tbl, groups |-> st.groups]

\* The multi-row INSERT into tbl that the builders make of n rows whose
\* values are all null.
BlankStmt(tbl, n) ==
  CASE tbl = "puestos_riesgos" -> RiesgosStmt(Null, [i \in 1..n |-> Null])
    [] tbl = "puestos_epp" -> EppStmt(Null, [i \in 1..n |-> Null])
    [] OTHER -> RespuestasStmt(EmptyObject, Null,
                               [i \in 1..n |-> [pregunta |-> Null, respuesta |-> Null]])

\* C14: the text of every multi-row INSERT issued is the text the builder
\* makes of as many rows of nulls, and two requests that insert the same
\* number of rows into the same table issue the same text, whatever their
\* values; the values are in the parameter lists only.
C14_NoInterpolation ==
  \A r \in Reqs :
    last[r].st.tbl \in DepTables =>
      /\ Text(last[r].st) = Text(BlankStmt(last[r].st.tbl, Len(ListOf(r))))
      /\ \A q \in Reqs :
           ( /\ last[q].st.tbl = last[r].st.tbl
             /\ Len(ListOf(q)) = Len(ListOf(r)) )
           => Text(last[q].st) = Text(last[r].st)

\* Two requests have issued INSERTs of as many answers with different
\* answers and different generated ids: same text, different parameters.
C14_Witness ==
  \E r, q \in Reqs :
    /\ r # q
    /\ last[r].st.tbl = "cuestionarios" /\ last[q].st.tbl = "cuestionarios"
    /\ Len(Respuestas(r)) = Len(Respuestas(q))
    /\ Respuestas(r) # Respuestas(q) /\ genId[r] # genId[q]
    /\ last[r].st.params # last[q].st.params
    /\ Text(last[r].st) = Text(last[q].st)

\* C15: a GET for an id that has no cuestionarios_info row, when its read
\* does not fail, is answered with status 200 and {info: null,
\* respuestas: []} after the header read alone; the answers read is issued
\* only for an id whose header exists.
C15_NotFound ==
  /\ ( rd.pc = "done" /\ SelectInfo(rd.id) = {} /\ rd.body # GetError )
     => /\ rd.body.status = 200
        /\ rd.body.info = << >> /\ rd.body.respuestas = << >>
        /\ rd.reads = 1
  /\ rd.reads = 2 => SelectInfo(rd.id) # {}

\* A GET answered as not found while another questionnaire is in the store.
C15_Witness ==
  /\ rd.pc = "done" /\ SelectInfo(rd.id) = {} /\ rd.body.status = 200
  /\ rd.reads = 1
  /\ \E w \in committed : w.tbl = "cuestionarios" /\ w.vals[4] # rd.id

\* Request r's awaited statement settles in this step.
StmtStep(r) == pc[r] \in InUnit /\ pc'[r] # pc[r]

\* The table of the last INSERT request r owes before its COMMIT.
LastInsert(r) ==
  IF input[r].route = "puestos"
  THEN IF Len(Epp(r)) > 0 THEN "puestos_epp"
       ELSE IF Len(Riesgos(r)) > 0 THEN "puestos_riesgos"
       ELSE "puestos_trabajo"
  ELSE IF Len(Respuestas(r)) > 0 THEN "cuestionarios" ELSE "cuestionarios_info"

\* The statement cur follows prev in the declared sequence BEGIN, parent
\* INSERT, dependent INSERTs (riesgos before epp), COMMIT, prev having
\* succeeded.
Declared(r, prev, cur) ==
  CASE cur.st.op = "BEGIN" -> prev = NoQuery
    [] cur.st.op = "COMMIT" -> prev.out = "ok" /\ prev.st.tbl = LastInsert(r)
    [] cur.st.tbl = ParentTable(r) -> prev.out = "ok" /\ prev.st.op = "BEGIN"
    [] cur.st.tbl = "puestos_riesgos" ->
         prev.out = "ok" /\ prev.st.tbl = "puestos_trabajo"
    [] cur.st.tbl = "puestos_epp" ->
         /\ prev.out = "ok"
         /\ prev.st.tbl = IF Len(Riesgos(r)) > 0 THEN "puestos_riesgos"
                          ELSE "puestos_trabajo"
    [] cur.st.tbl = "cuestionarios" ->
         prev.out = "ok" /\ prev.st.tbl = "cuestionarios_info"
    [] OTHER -> FALSE

\* Every statement is issued on the connection the request holds, which it
\* holds alone and does not change.
OnOwnConn(r) ==
  /\ conn[r] # 0 /\ pool[conn[r]].holder = r /\ released[r] = 0
  /\ conn'[r] \in {conn[r], 0}

\* C16 as stated: statements follow the declared sequence, each after the
\* success of the one before; a ROLLBACK follows a failed BEGIN or INSERT;
\* and nothing is issued by the request after its COMMIT, after its
\* ROLLBACK, or after the release.
C16_NothingAfterCommit ==
  [][ \A r \in Reqs :
        /\ StmtStep(r) =>
             /\ OnOwnConn(r)
             /\ IF last'[r].st.op = "ROLLBACK"
                THEN last[r].out # "ok" /\ last[r].st.op \in {"BEGIN", "INSERT"}
                ELSE Declared(r, last[r], last'[r])
        /\ ( last[r].st.op \in {"COMMIT", "ROLLBACK"} \/ released[r] > 0 )
           => last'[r] = last[r] ]_vars

\* C16: statements follow the declared sequence, each after the success of
\* the one before; a statement that fails, COMMIT included, is followed by
\* ROLLBACK alone; nothing is issued by the request after its successful
\* COMMIT, after its ROLLBACK, or after the release.
C16_StatementOrder ==
  [][ \A r \in Reqs :
        /\ StmtStep(r) =>
             /\ OnOwnConn(r)
             /\ IF last'[r].st.op = "ROLLBACK"
                THEN last[r].out \in {"error", "dead", "lost"}
                ELSE Declared(r, last[r], last'[r])
        /\ ( \/ last[r].st.op = "COMMIT" /\ last[r].out = "ok"
             \/ last[r].st.op = "ROLLBACK"
             \/ released[r] > 0 )
           => last'[r] = last[r] ]_vars

\* One request went through BEGIN, header, answers and COMMIT; the other,
\* with a parent row alone to insert, had its COMMIT fail and issued
\* ROLLBACK after it.
C16_Witness ==
  \E r, q \in Reqs :
    /\ pc[r] = "done" /\ last[r].st.op = "COMMIT" /\ last[r].out = "ok"
    /\ LastInsert(r) = "cuestionarios"
    /\ pc[q] = "done" /\ last[q].st.op = "ROLLBACK" /\ ~depFailed[q]
    /\ genId[q] # 0 /\ LastInsert(q) = ParentTable(q)

\* C17: no connection is held by two requests at once; the uncommitted rows
\* on a connection are its holder's alone and a connection that is not
\* checked out carries no transaction into its next use; and a statement of
\* one request touches no connection but its own.
C17_Exclusive ==
  /\ [] /\ \A r, q \in Reqs : (r # q /\ conn[r] # 0) => conn[q] # conn[r]
        /\ \A c \in Conns :
             /\ \A w \in pool[c].pending : w.by = pool[c].holder
             /\ pool[c].holder = 0 => pool[c] = FreshConn
  /\ [][ \A r \in Reqs :
           StmtStep(r) => \A c \in Conns \ {conn[r]} : pool'[c] = pool[c] ]_vars

\* Two requests are inside their transactions at once, each with
\* uncommitted rows on its own connection.
C17_Witness ==
  \E r, q \in Reqs :
    /\ r # q /\ conn[r] # 0 /\ conn[q] # 0
    /\ RowsBy(pool[conn[r]].pending, r) # {}
    /\ RowsBy(pool[conn[q]].pending, q) # {}

\* The committed answer rows of questionnaire id.
AnswersOf(id) == { w \in committed : w.tbl = "cuestionarios" /\ w.vals[4] = id }

\* Requests r and q were both answered as saved, for equal payloads.
SavedTwice(r, q) ==
  /\ r # q
  /\ SavedAs(r, genId[r]) /\ SavedAs(q, genId[q])
  /\ input[r].payload = input[q].payload

\* C18: no step removes or changes a committed row; and two successful
\* submissions of the same payload have different info_ids, each with its
\* own header row and its own full set of answer rows.
C18_AppendOnly ==
  /\ [][committed \subseteq committed']_vars
  /\ [] \A r, q \in Reqs :
          SavedTwice(r, q) =>
            /\ genId[r] # genId[q]
            /\ Cardinality(SelectInfo(genId[r])) = 1
            /\ Cardinality(SelectInfo(genId[q])) = 1
            /\ Cardinality(AnswersOf(genId[r])) = Len(Respuestas(r))
            /\ Cardinality(AnswersOf(genId[q])) = Len(Respuestas(q))

\* The same payload of two answers saved twice: two headers, four answers.
C18_Witness ==
  \E r, q \in Reqs :
    /\ SavedTwice(r, q)
    /\ Len(Respuestas(r)) >= 2
    /\ Cardinality(AnswersOf(genId[r]) \cup AnswersOf(genId[q]))
         = 2 * Len(Respuestas(r))

\* Request r was sent the response of its success path.
SentSuccess(r) == \E i \in DOMAIN resp[r] : resp[r][i].status = 200

\* Request r was sent the failure response of its catch (handleServerError).
SentFailure(r) == \E i \in DOMAIN resp[r] : resp[r][i] = ServerError

\* C19: a request that was sent its success response, carrying the
\* generated id, has a COMMIT that succeeded as its last statement (so no
\* ROLLBACK) and its parent row committed under that id; a request that was
\* sent the failure response of its unit of work ended with a ROLLBACK that
\* succeeded, no COMMIT of its having taken effect: none of its rows is
\* committed.
C19_ResponseAgreesWithCommit ==
  \A r \in Reqs :
    /\ SentSuccess(r) =>
         /\ last[r] = [st |-> Control("COMMIT"), out |-> "ok"]
         /\ resp[r] \in {<<PuestoCreated(genId[r])>>, <<CuestSaved(genId[r])>>}
         /\ \E w \in RowsBy(committed, r) :
              w.tbl = ParentTable(r) /\ w.id = genId[r]
    /\ SentFailure(r) =>
         /\ last[r] = [st |-> Control("ROLLBACK"), out |-> "ok"]
         /\ RowsBy(committed, r) = {}

\* One request answered success with rows committed; the other answered
\* 500 after all its INSERTs succeeded and its COMMIT was refused.
C19_Witness ==
  \E r, q \in Reqs :
    /\ SentSuccess(r) /\ RowsBy(committed, r) # {}
    /\ SentFailure(q) /\ genId[q] # 0 /\ ~depFailed[q]
    /\ LastInsert(q) = ParentTable(q)

\* The list as the store returns it: a field that was absent reads as null.
Stored(rs) ==
  [i \in DOMAIN rs |->
     [pregunta |-> Bind(rs[i].pregunta), respuesta |-> Bind(rs[i].respuesta)]]

\* C20: a GET answered with a header, at whatever moment of the submissions
\* its two reads fell, carries all the answers that were submitted with that
\* header, in order: never a part of them, never none when there are some.
C20_NoPartialQuestionnaire ==
  ( rd.pc = "done" /\ rd.body.status = 200 /\ rd.body.info # << >> )
  => \E r \in Reqs :
       /\ input[r].route = "cuestionario" /\ genId[r] = rd.id
       /\ rd.body.respuestas = Stored(Respuestas(r))

\* A GET that arrived before the submission was answered and still got the
\* header, with both answers.
C20_Witness ==
  /\ rd.pc = "done" /\ rd.body.status = 200 /\ rd.body.info # << >>
  /\ ~rd.after
  /\ Len(rd.body.respuestas) >= 2

==============================================================================
